---- MODULE Spec2Model ----
(***************************************************************************)
(* A model of repositoryLib.Repository: the synchronization operations     *)
(* (fetch, merge, pull) on a repository with one remote, and the           *)
(* credential resolution of Repository.AuthCallback.                       *)
(*                                                                         *)
(* The Git engine (pygit2) is an external collaborator.  Its operations    *)
(* are modelled at their interface: a commit is a record of parents, tree  *)
(* and message; a tree maps each file to a content (0: the file is         *)
(* absent); a ref holds a commit id (0: the ref does not exist).           *)
(***************************************************************************)
EXTENDS Integers, Sequences, FiniteSets, TLC

\* ------------------------------------------------------------------------
\* Bounds
\* ------------------------------------------------------------------------
MaxCommits == 3

\* ------------------------------------------------------------------------
\* Values
\* ------------------------------------------------------------------------
Branches == {"master", "dev"}
Remotes  == {"origin"}
Files    == {"f"}
\* The contents a file can have: 0 is "the file is absent", 3 stands for a
\* file of the working tree that holds conflict markers.
Contents == {0, 1, 2}
Trees    == [Files -> Contents]
EmptyTree == [f \in Files |-> 0]

ConflictMarker == Cardinality(Contents)

\* The contents written by this repository's user and by the other users of
\* the remote: a file both sides wrote is a conflict, a file the remote
\* emptied or left alone is not.
LocalContents  == {1}
RemoteContents == {0, 2}

\* Repository.MASTER_REF, as a short branch name ('refs/heads/' + MASTER).
MASTER_REF == "master"

\* pygit2.GIT_MERGE_ANALYSIS_*: single-bit flags, a result is a set of them.
UP_TO_DATE  == "UP_TO_DATE"
FASTFORWARD == "FASTFORWARD"
NORMAL      == "NORMAL"
UNBORN      == "UNBORN"
AnalysisFlags == {UP_TO_DATE, FASTFORWARD, NORMAL, UNBORN}

\* Exceptions an operation ends with ("" when it returns normally).
NoExc          == ""
ConflictError  == "RuntimeError: Conflicts occurred."
UnbornError    == "ValueError: The HEAD of the current repository is unborn"
UnknownError   == "ValueError: Unknown merge analysis result"
SelfMergeError == "ValueError: Cannot merge a branch to itself."
EmptyMsgError  == "ValueError: Commit message should not be empty."
KeyError       == "KeyError"
AttributeError == "AttributeError"
GitError       == "GitError"
TransportError == "GitError: transport"
TypeError      == "TypeError"
PushRejectedError == "RuntimeError: Failed to push to remote"

VARIABLES
    objects,     \* the commit objects: a sequence, a commit's id is its index
    refs,        \* refs/heads/<b>: branch -> commit id, 0 when absent
    tracking,    \* refs/remotes/origin/<b>: branch -> commit id, 0 when absent
    HEAD,        \* the branch HEAD points to (HEAD is symbolic)
    index,       \* the staging area: a tree
    conflicts,   \* the files with conflict entries in the index
    workTree,    \* the checked-out files: file -> content or ConflictMarker
    mergeHead,   \* the in-progress-merge state: the commit being merged, or 0
    originRefs,  \* the remote repository's branches: branch -> commit id
    pushUrl,     \* the push URL configured for the remote, <<>> when unset
    last,        \* the last operation called: its name, arguments, the
                 \* exception it ended with, the engine calls it made
    sshConfig,   \* the file ~/.ssh/config: whether it exists, its host blocks
    keyFiles,    \* the private key files that exist: path -> contents
    keystore,    \* the secret store: private key path -> cached passphrase
    auth         \* the credential resolutions: resolver -> its position,
                 \* locals, outcome and the external calls it made

repoVars == <<objects, refs, tracking, HEAD, index, conflicts, workTree, mergeHead>>
gitVars == <<objects, refs, tracking, HEAD, index, conflicts, workTree,
             mergeHead, originRefs, pushUrl, last>>
authVars == <<sshConfig, keyFiles, keystore, auth>>
vars == <<objects, refs, tracking, HEAD, index, conflicts, workTree, mergeHead,
          originRefs, pushUrl, last, sshConfig, keyFiles, keystore, auth>>

\* ------------------------------------------------------------------------
\* The repository as a value: operations map a world to a world
\* ------------------------------------------------------------------------
World ==
    [objects |-> objects, refs |-> refs, tracking |-> tracking, HEAD |-> HEAD,
     index |-> index, conflicts |-> conflicts, workTree |-> workTree,
     mergeHead |-> mergeHead, pushUrl |-> pushUrl,
     exc |-> NoExc, calls |-> <<>>, flags |-> {}, ret |-> "None", msg |-> <<>>,
     specs |-> <<>>]

Has(seq, x) == \E i \in 1..Len(seq) : seq[i] = x

Raise(w, e) == [w EXCEPT !.exc = e]
Return(w, v) == [w EXCEPT !.ret = v]
Call(w, c)  == [w EXCEPT !.calls = Append(@, c)]

\* Repository.head: the reference HEAD resolves to, None (0) when unborn.
head(w) == w.refs[w.HEAD]

\* currentBranch that reads the branch name from the symbolic HEAD.
currentBranchSymbolic(w) == w.HEAD

\* Repository.currentBranch: None ("None") when there is no head.
currentBranch(w) == IF head(w) = 0 THEN "None" ELSE w.HEAD

\* The commits reachable from commit c (c included).
RECURSIVE Ancestors(_, _)
Ancestors(objs, c) ==
    {c} \cup UNION {Ancestors(objs, objs[c].parents[i]) :
                        i \in 1..Len(objs[c].parents)}

TreeOf(w, c) == IF c = 0 THEN EmptyTree ELSE w.objects[c].tree

Max(S) == CHOOSE x \in S : \A y \in S : y <= x

\* The merge base of two commits: a best common ancestor, 0 when the
\* histories are unrelated (the merge then uses the empty tree as base).
MergeBase(w, a, b) ==
    LET common == Ancestors(w.objects, a) \cap Ancestors(w.objects, b)
    IN  IF common = {} THEN 0 ELSE Max(common)

\* ------------------------------------------------------------------------
\* The Git engine's operations used by pull, merge and createCommit
\* ------------------------------------------------------------------------

\* Repository.merge_analysis of the engine: how commit their relates to HEAD.
Libgit2Analysis(w, their) ==
    IF head(w) = 0 THEN {FASTFORWARD, UNBORN}
    ELSE IF their \in Ancestors(w.objects, head(w)) THEN {UP_TO_DATE}
    ELSE IF head(w) \in Ancestors(w.objects, their) THEN {FASTFORWARD, NORMAL}
    ELSE {NORMAL}

\* The analysis the engine answers: its own (oracle.real), or the set of
\* flags given in oracle.flags (an engine that breaks its contract).
merge_analysis(w, their, oracle) ==
    IF oracle.real THEN Libgit2Analysis(w, their) ELSE oracle.flags

\* Repository.checkout_tree: working tree and index become the commit's tree.
checkout_tree(w, c) ==
    [Call(w, "checkout_tree") EXCEPT
        !.workTree = TreeOf(w, c), !.index = TreeOf(w, c), !.conflicts = {}]

\* Reference.set_target on refs/heads/<b>.
set_target(w, b, c) ==
    [Call(w, "set_target") EXCEPT !.refs[b] = c]

\* Three-way merge of one file: the merged content, or a conflict.
Conflicted(base, ours, theirs) ==
    ours # theirs /\ ours # base /\ theirs # base

Merge3(base, ours, theirs) ==
    IF ours = theirs THEN ours
    ELSE IF ours = base THEN theirs
    ELSE ours

\* Repository.merge of the engine: three-way merge of commit c into the
\* index and the working tree; the repository enters the merge state.
engine_merge(w, c) ==
    LET base   == TreeOf(w, MergeBase(w, head(w), c))
        ours   == TreeOf(w, head(w))
        theirs == TreeOf(w, c)
        bad    == {f \in Files : Conflicted(base[f], ours[f], theirs[f])}
        merged == [f \in Files |-> Merge3(base[f], ours[f], theirs[f])]
    IN  [Call(w, "_repository.merge") EXCEPT
            !.index     = merged,
            !.conflicts = bad,
            !.workTree  = [f \in Files |->
                              IF f \in bad THEN ConflictMarker ELSE merged[f]],
            !.mergeHead = c]

\* Repository.state_cleanup: leave the in-progress-merge state.
state_cleanup(w) ==
    [Call(w, "state_cleanup") EXCEPT !.mergeHead = 0]

\* Repository.create_commit('HEAD', ...): a new commit object, and the branch
\* HEAD points to moves to it.
create_commit(w, message, tree, parents) ==
    LET id == Len(w.objects) + 1
    IN  [Call(w, "create_commit") EXCEPT
            !.objects = Append(@, [parents |-> parents, tree |-> tree,
                                   message |-> message]),
            !.refs[w.HEAD] = id]

\* ------------------------------------------------------------------------
\* Repository methods
\* ------------------------------------------------------------------------

\* createCommit that gives every commit an empty parent list.
createCommitNoParent(w, commitMessage) ==
    IF commitMessage = <<>> THEN Raise(w, EmptyMsgError)
    ELSE IF w.conflicts # {}
         THEN Raise(Call(w, "write_tree"), GitError)
         ELSE create_commit(Call(w, "write_tree"), commitMessage,
                            w.index, <<>>)

\* Repository.createCommit.
createCommit(w, commitMessage) ==
    IF commitMessage = <<>> THEN Raise(w, EmptyMsgError)
    ELSE LET parent == IF head(w) = 0 THEN <<>> ELSE <<head(w)>>
         IN  IF w.conflicts # {}
             THEN Raise(Call(w, "write_tree"), GitError)
             ELSE create_commit(Call(w, "write_tree"), commitMessage,
                                w.index, parent)

\* Repository.fetch(remoteName): the remote-tracking refs of the branches in
\* written take the remote's values; a transport failure (~ok) raises after
\* those writes.
fetch(w, remoteRefs, written, ok) ==
    LET w1 == [Call(w, "fetch") EXCEPT
                 !.tracking = [b \in Branches |->
                     IF b \in written /\ remoteRefs[b] # 0
                     THEN remoteRefs[b] ELSE @[b]]]
    IN  IF ok THEN w1 ELSE Raise(w1, TransportError)

\* merge without the test for the commit of HEAD.
mergeNoSelfTest(w, commitID) ==
    IF head(w) = 0 THEN Raise(Call(w, "self.merge"), AttributeError)
    ELSE engine_merge(Call(w, "self.merge"), commitID)

\* Repository.merge: self.head() is None on an unborn HEAD, and None has no
\* attribute 'target'.
merge(w, commitID) ==
    IF head(w) = 0 THEN Raise(Call(w, "self.merge"), AttributeError)
    ELSE IF head(w) = commitID THEN Raise(Call(w, "self.merge"), SelfMergeError)
    ELSE engine_merge(Call(w, "self.merge"), commitID)

\* 'Pull from remote of {}'.format(branch)
PullMessage(branch) == <<"Pull from remote of ", branch>>

Truthy(v) == v = "True"

\* The fast-forward branch of pull.
pullFastForward(w, remoteId) ==
    LET w1 == checkout_tree(w, remoteId)
    IN  IF w1.refs[MASTER_REF] = 0
        THEN Raise(Call(w1, "lookup_reference"), KeyError)
        ELSE set_target(set_target(Call(w1, "lookup_reference"),
                                   MASTER_REF, remoteId),
                        w1.HEAD, remoteId)

\* pullNormal that leaves the merge state before it tests for conflicts.
pullNormalCleanupFirst(w, remoteId, mergeCommit) ==
    LET w1 == merge(w, remoteId)
    IN  IF w1.exc # NoExc THEN w1
        ELSE IF w1.conflicts # {} THEN Raise(state_cleanup(w1), ConflictError)
        ELSE LET w2 == IF Truthy(mergeCommit)
                       THEN createCommit(w1, PullMessage(currentBranch(w1)))
                       ELSE w1
             IN  IF w2.exc # NoExc THEN w2 ELSE state_cleanup(w2)

\* pullNormal that commits the merge whatever the caller's flag.
pullNormalAlwaysCommit(w, remoteId, mergeCommit) ==
    LET w1 == merge(w, remoteId)
    IN  IF w1.exc # NoExc THEN w1
        ELSE IF w1.conflicts # {} THEN Raise(w1, ConflictError)
        ELSE LET w2 == createCommit(w1, PullMessage(currentBranch(w1)))
             IN  IF w2.exc # NoExc THEN w2 ELSE state_cleanup(w2)

\* The normal-merge branch of pull.
pullNormal(w, remoteId, mergeCommit) ==
    LET w1 == merge(w, remoteId)
    IN  IF w1.exc # NoExc THEN w1
        ELSE IF w1.conflicts # {} THEN Raise(w1, ConflictError)
        ELSE LET w2 == IF Truthy(mergeCommit)
                       THEN createCommit(w1, PullMessage(currentBranch(w1)))
                       ELSE w1
             IN  IF w2.exc # NoExc THEN w2 ELSE state_cleanup(w2)

\* pullResolve with the normal-merge test moved before the fast-forward test.
pullResolveNormalFirst(w, remoteId, mergeFlags, mergeCommit) ==
    IF UP_TO_DATE \in mergeFlags THEN w
    ELSE IF NORMAL \in mergeFlags THEN pullNormal(w, remoteId, mergeCommit)
    ELSE IF FASTFORWARD \in mergeFlags THEN pullFastForward(w, remoteId)
    ELSE IF UNBORN \in mergeFlags THEN Raise(w, UnbornError)
    ELSE Raise(w, UnknownError)

\* pullResolve whose up-to-date branch checks the remote target out.
pullResolveCheckout(w, remoteId, mergeFlags, mergeCommit) ==
    IF UP_TO_DATE \in mergeFlags THEN checkout_tree(w, remoteId)
    ELSE IF FASTFORWARD \in mergeFlags THEN pullFastForward(w, remoteId)
    ELSE IF NORMAL \in mergeFlags THEN pullNormal(w, remoteId, mergeCommit)
    ELSE IF UNBORN \in mergeFlags THEN Raise(w, UnbornError)
    ELSE Raise(w, UnknownError)

\* pullResolve that checks the remote target out before it gives up on an
\* unknown result.
pullResolveUnknownCheckout(w, remoteId, mergeFlags, mergeCommit) ==
    IF UP_TO_DATE \in mergeFlags THEN w
    ELSE IF FASTFORWARD \in mergeFlags THEN pullFastForward(w, remoteId)
    ELSE IF NORMAL \in mergeFlags THEN pullNormal(w, remoteId, mergeCommit)
    ELSE IF UNBORN \in mergeFlags THEN Raise(w, UnbornError)
    ELSE Raise(checkout_tree(w, remoteId), UnknownError)

\* What pull does with a merge-analysis result.
pullResolve(w, remoteId, mergeFlags, mergeCommit) ==
    IF UP_TO_DATE \in mergeFlags THEN w
    ELSE IF FASTFORWARD \in mergeFlags THEN pullFastForward(w, remoteId)
    ELSE IF NORMAL \in mergeFlags THEN pullNormal(w, remoteId, mergeCommit)
    ELSE IF UNBORN \in mergeFlags THEN Raise(w, UnbornError)
    ELSE Raise(w, UnknownError)

\* pull that goes on after a fetch that failed.
pullIgnoreFetchFailure(w, remoteRefs, written, ok, oracle, mergeCommit) ==
    LET w1 == [fetch(w, remoteRefs, written, ok) EXCEPT !.exc = NoExc]
        cb == currentBranch(w1)
    IN  IF cb \notin Branches \/ w1.tracking[cb] = 0
        THEN Raise(Call(w1, "lookup_reference"), KeyError)
        ELSE LET remoteId   == w1.tracking[cb]
                 w2         == Call(w1, "lookup_reference")
                 mergeFlags == merge_analysis(w2, remoteId, oracle)
                 w3         == [Call(w2, "merge_analysis") EXCEPT
                                   !.flags = mergeFlags]
             IN  pullResolve(w3, remoteId, mergeFlags, mergeCommit)

\* Repository.pull.
pull(w, remoteRefs, written, ok, oracle, mergeCommit) ==
    LET w1 == fetch(w, remoteRefs, written, ok)
        cb == currentBranch(w1)
    IN  IF w1.exc # NoExc THEN w1
        ELSE IF cb \notin Branches \/ w1.tracking[cb] = 0
        THEN Raise(Call(w1, "lookup_reference"), KeyError)
        ELSE LET remoteId   == w1.tracking[cb]
                 w2         == Call(w1, "lookup_reference")
                 mergeFlags == merge_analysis(w2, remoteId, oracle)
                 w3         == [Call(w2, "merge_analysis") EXCEPT
                                   !.flags = mergeFlags]
             IN  pullResolve(w3, remoteId, mergeFlags, mergeCommit)

\* The name under which the engine lists the remote-tracking branch of b.
RemoteBranchName(b) == IF b = "master" THEN "origin/master" ELSE "origin/dev"

\* The names a caller can ask checkoutBranch for.
BranchNames == Branches \cup {RemoteBranchName(b) : b \in Branches}

\* Repository.listBranches: the local branches by name and the
\* remote-tracking ones as '<remote>/<name>'.
listBranches(w) ==
    {b \in Branches : w.refs[b] # 0}
        \cup {RemoteBranchName(b) : b \in {x \in Branches : w.tracking[x] # 0}}

\* Repository.lookup_branch('<remote>/<name>', kRemote) finds a branch.
lookup_branch(w, name) ==
    IF name \in Branches THEN w.tracking[name] # 0 ELSE FALSE

\* Repository.checkout('refs/heads/<name>') of the engine: the reference is
\* looked up first.
checkout(w, name) ==
    IF name \notin Branches THEN Raise(Call(w, "checkout"), KeyError)
    ELSE [Call(w, "checkout") EXCEPT
             !.HEAD = name,
             !.index = TreeOf(w, w.refs[name]),
             !.workTree = TreeOf(w, w.refs[name]),
             !.conflicts = {}]

\* checkoutBranch that takes the branch from the remote whenever the remote
\* has it, also over a local branch of that name.
checkoutBranchRemoteFirst(w, name) ==
    LET w1 == IF lookup_branch(w, name)
              THEN [Call(w, "create_branch") EXCEPT
                       !.refs[name] = w.tracking[name]]
              ELSE IF name \in listBranches(w) THEN w
              ELSE Raise(w, AttributeError)
    IN  IF w1.exc # NoExc THEN w1 ELSE checkout(w1, name)

\* Repository.checkoutBranch(name, remote).
checkoutBranch(w, name) ==
    LET w1 == IF name \in listBranches(w) THEN w
              ELSE IF lookup_branch(w, name)
              THEN [Call(w, "create_branch") EXCEPT
                       !.refs[name] = w.tracking[name]]
              ELSE Raise(w, AttributeError)
    IN  IF w1.exc # NoExc THEN w1 ELSE checkout(w1, name)

\* Repository.add(filePath): stage the file's content v of the working tree.
add(w, f, v) ==
    [Call(w, "index.add") EXCEPT
        !.workTree[f] = v, !.index[f] = v, !.conflicts = @ \ {f}]

\* ------------------------------------------------------------------------
\* Repository.AuthCallback: values
\* ------------------------------------------------------------------------

\* maxTries of generateKeypair.
maxTries == 5

Resolvers == {"r1", "r2"}

\* A string is the sequence of its tokens: joining strings is \o.
HomeDir      == <<"/home/dev">>
ConfigPath   == <<"~", "/.ssh/config">>
DefaultKey   == <<"~", "/.ssh/id_rsa">>
WorkKey      == <<"~", "/.ssh/id_work">>
PubSuffix    == <<".pub">>
KeyPaths     == {HomeDir \o Tail(DefaultKey), HomeDir \o Tail(WorkKey)}

\* os.path.expanduser.
expanduser(path) ==
    IF path # <<>> /\ Head(path) = "~" THEN HomeDir \o Tail(path) ELSE path

Usernames == {"git"}

\* The URLs given to the credentials callback.
Urls ==
    { <<"git", "@", "myhostname.com", ":", "user", "/", "repo.git">>,
      <<"ssh", "://", "git", "@", "MyHostName.com", ":", "user", "/", "repo.git">>,
      <<"git", "://", "other.org", "/", "repo.git">>,
      <<"/", "path", "/", "only", "@">>,
      <<"git", "@">> }

Lower(token) == IF token = "MyHostName.com" THEN "myhostname.com" ELSE token

\* re.search(r'^\w+://', url)
HasScheme(url) ==
    Len(url) >= 2 /\ url[1] \notin {"/", "@", ":", "://"} /\ url[2] = "://"

\* The position of the first token of seq from position i on that is in
\* stops, Len(seq) + 1 when there is none.
RECURSIVE FirstStop(_, _, _)
FirstStop(seq, i, stops) ==
    IF i > Len(seq) \/ seq[i] \in stops THEN i
    ELSE FirstStop(seq, i + 1, stops)

\* The position after the last "@" of seq, 1 when there is none.
RECURSIVE AfterLastAt(_, _)
AfterLastAt(seq, i) ==
    IF i = 0 THEN 1
    ELSE IF seq[i] = "@" THEN i + 1
    ELSE AfterLastAt(seq, i - 1)

\* urlparse.urlparse(url).hostname of a URL with a scheme: the network
\* location runs from '://' to the first '/', the host name is what follows
\* its last '@', up to ':', in lower case; None ("") when that is empty.
hostname(url) ==
    LET netloc   == SubSeq(url, 3, FirstStop(url, 3, {"/"}) - 1)
        hostport == SubSeq(netloc, AfterLastAt(netloc, Len(netloc)),
                           Len(netloc))
        host     == SubSeq(hostport, 1, FirstStop(hostport, 1, {":"}) - 1)
    IN  IF host = <<>> THEN "" ELSE Lower(host[1])

\* A dict: a function on its keys.
EmptyDict == [k \in {} |-> <<>>]
Get(dict, key, default) == IF key \in DOMAIN dict THEN dict[key] ELSE default

\* paramiko's SSHConfig.lookup: the options of the blocks matching the host.
lookup(hosts, hostName) ==
    IF hostName \in DOMAIN hosts
    THEN [hostname |-> <<hostName>>, identityfile |-> hosts[hostName]]
    ELSE [hostname |-> <<hostName>>]

\* The exceptions of credential resolution.
InvalidUrlError == "ValueError: The given URL is invalid."
KeyNotFoundError == "ValueError: cannot find configured private key"
NoPasswordError == "RuntimeError: Failed to get password for ssh private key"
DecryptError == "ValueError: Failed to decrypt private key"

\* What the secret store holds or answers when it has no passphrase.
None == "None"
Passphrases == {"hunter2", "letmein"}

\* The contents of a private key file.
PlainKey == [encrypted |-> FALSE, passphrase |-> None]
EncryptedKeys == {[encrypted |-> TRUE, passphrase |-> p] : p \in Passphrases}

\* 'ENCRYPTED' in keyContents
IsEncrypted(keyContents) == keyContents.encrypted

\* load_pem_private_key(keyContents, password): TRUE when it returns, FALSE
\* when it raises ValueError.
load_pem_private_key(keyContents, password) ==
    keyContents.passphrase = password

\* getSSHConfig that fails when there is no SSH configuration file.
getSSHConfigMissingRaises(url, configFile) ==
    LET isfile == <<<<"isfile", expanduser(ConfigPath)>>>>
        opened == isfile \o <<<<"open", expanduser(ConfigPath)>>>>
        url2   == IF HasScheme(url) THEN url ELSE <<"ssh", "://">> \o url
        hostName == hostname(url2)
    IN  IF ~configFile.exists
        THEN [exc |-> KeyNotFoundError, config |-> EmptyDict, log |-> isfile]
        ELSE IF hostName = ""
        THEN [exc |-> InvalidUrlError, config |-> EmptyDict, log |-> opened]
        ELSE [exc |-> NoExc, config |-> lookup(configFile.hosts, hostName),
              log |-> opened]

\* AuthCallback.getSSHConfig, with the file accesses it makes.
getSSHConfig(url, configFile) ==
    LET isfile == <<<<"isfile", expanduser(ConfigPath)>>>>
        opened == isfile \o <<<<"open", expanduser(ConfigPath)>>>>
        url2   == IF HasScheme(url) THEN url ELSE <<"ssh", "://">> \o url
        hostName == hostname(url2)
    IN  IF ~configFile.exists
        THEN [exc |-> NoExc, config |-> EmptyDict, log |-> isfile]
        ELSE IF hostName = ""
        THEN [exc |-> InvalidUrlError, config |-> EmptyDict, log |-> opened]
        ELSE [exc |-> NoExc, config |-> lookup(configFile.hosts, hostName),
              log |-> opened]

\* pygit2.credentials.Keypair(username, pubKey, privKey, passPhrase)
Keypair(username, pubKey, privKey, passPhrase) ==
    [username |-> username, pubkey |-> pubKey, privkey |-> privKey,
     passphrase |-> passPhrase]

NoKeypair == Keypair("", <<>>, <<>>, None)

\* A resolver that is not resolving.
IdleAuth ==
    [pc |-> "idle", url |-> <<>>, username |-> "", privKey |-> <<>>,
     tryNum |-> 0, passPhrase |-> None, exc |-> NoExc, keypair |-> NoKeypair,
     log |-> <<>>]

\* The resolution ends with exception e, or returns keypair k.
Raised(a, e)   == [a EXCEPT !.pc = "done", !.exc = e]
Returned(a, k) == [a EXCEPT !.pc = "done", !.keypair = k]
Logged(a, entry) == [a EXCEPT !.log = Append(@, entry)]

\* credentials that asks for a passphrase whatever the key file holds.
credentialsAlwaysAsk(url, username, configFile, files) ==
    LET got     == getSSHConfig(url, configFile)
        a0      == [IdleAuth EXCEPT !.url = url, !.username = username,
                                    !.log = got.log]
        privKey == expanduser(Get(got.config, "identityfile", <<DefaultKey>>)[1])
        a1      == Logged([a0 EXCEPT !.privKey = privKey], <<"isfile", privKey>>)
        a2      == Logged(a1, <<"open", privKey>>)
    IN  IF got.exc # NoExc THEN Raised(a0, got.exc)
        ELSE IF privKey \notin DOMAIN files THEN Raised(a1, KeyNotFoundError)
        ELSE [a2 EXCEPT !.pc = "getPassword", !.tryNum = 0]

\* credentials without the test for the key file.
credentialsNoFileTest(url, username, configFile, files) ==
    LET got     == getSSHConfig(url, configFile)
        a0      == [IdleAuth EXCEPT !.url = url, !.username = username,
                                    !.log = got.log]
        privKey == expanduser(Get(got.config, "identityfile", <<DefaultKey>>)[1])
        a1      == Logged([a0 EXCEPT !.privKey = privKey], <<"isfile", privKey>>)
        a2      == Logged(a1, <<"open", privKey>>)
    IN  IF got.exc # NoExc THEN Raised(a0, got.exc)
        ELSE IF privKey \in DOMAIN files /\ IsEncrypted(files[privKey])
        THEN [a2 EXCEPT !.pc = "getPassword", !.tryNum = 0]
        ELSE Returned(a2, Keypair(username, privKey \o PubSuffix, privKey, None))

\* AuthCallback.credentials up to the passphrase loop of generateKeypair:
\* the resolver after the call, given the files that exist.
credentials(url, username, configFile, files) ==
    LET got     == getSSHConfig(url, configFile)
        a0      == [IdleAuth EXCEPT !.url = url, !.username = username,
                                    !.log = got.log]
        privKey == expanduser(Get(got.config, "identityfile", <<DefaultKey>>)[1])
        a1      == Logged([a0 EXCEPT !.privKey = privKey], <<"isfile", privKey>>)
        a2      == Logged(a1, <<"open", privKey>>)
    IN  IF got.exc # NoExc THEN Raised(a0, got.exc)
        ELSE IF privKey \notin DOMAIN files THEN Raised(a1, KeyNotFoundError)
        ELSE IF IsEncrypted(files[privKey])
        THEN [a2 EXCEPT !.pc = "getPassword", !.tryNum = 0]
        ELSE Returned(a2, Keypair(username, privKey \o PubSuffix, privKey, None))

\* Keystore.getPassword(namespace, privKey, ask=True, prompt=...): the cached
\* passphrase, else the answer to the prompt, which is cached unless None.
getPassword(store, privKey, answer) ==
    IF store[privKey] # None THEN [store |-> store, password |-> store[privKey]]
    ELSE [store |-> [store EXCEPT ![privKey] = answer], password |-> answer]

\* Keystore.deletePassword(namespace, privKey).
deletePassword(store, privKey) == [store EXCEPT ![privKey] = None]

\* requestPassphrase that tries to unlock the key with None.
requestPassphraseNoTest(a, password) ==
    [Logged([a EXCEPT !.passPhrase = password], <<"getPassword", password>>)
        EXCEPT !.pc = "unlock"]

\* generateKeypair, the first half of an iteration of the loop: the request
\* of a passphrase and the test for None.
requestPassphrase(a, password) ==
    LET a1 == Logged([a EXCEPT !.passPhrase = password],
                     <<"getPassword", password>>)
    IN  IF password = None THEN Raised(a1, NoPasswordError)
        ELSE [a1 EXCEPT !.pc = "unlock"]

\* tryUnlock that gives up one try early.
tryUnlockOneLess(a, keyContents) ==
    IF load_pem_private_key(keyContents, a.passPhrase)
    THEN [a |-> Returned(Logged(a, <<"load_pem_private_key", "ok">>),
                         Keypair(a.username, a.privKey \o PubSuffix,
                                 a.privKey, a.passPhrase)),
          evict |-> FALSE]
    ELSE LET a1 == Logged(Logged(a, <<"load_pem_private_key", "ValueError">>),
                          <<"deletePassword", a.privKey>>)
         IN  [a |-> IF a.tryNum = maxTries - 2 THEN Raised(a1, DecryptError)
                    ELSE [a1 EXCEPT !.pc = "getPassword",
                                    !.tryNum = a.tryNum + 1],
              evict |-> TRUE]

\* tryUnlock that evicts the passphrase that unlocked the key, too.
tryUnlockEvictAlways(a, keyContents) ==
    IF load_pem_private_key(keyContents, a.passPhrase)
    THEN [a |-> Returned(Logged(Logged(a, <<"load_pem_private_key", "ok">>),
                                <<"deletePassword", a.privKey>>),
                         Keypair(a.username, a.privKey \o PubSuffix,
                                 a.privKey, a.passPhrase)),
          evict |-> TRUE]
    ELSE LET a1 == Logged(Logged(a, <<"load_pem_private_key", "ValueError">>),
                          <<"deletePassword", a.privKey>>)
         IN  [a |-> IF a.tryNum = maxTries - 1 THEN Raised(a1, DecryptError)
                    ELSE [a1 EXCEPT !.pc = "getPassword",
                                    !.tryNum = a.tryNum + 1],
              evict |-> TRUE]

\* tryUnlock that allows one try more.
tryUnlockOneMore(a, keyContents) ==
    IF load_pem_private_key(keyContents, a.passPhrase)
    THEN [a |-> Returned(Logged(a, <<"load_pem_private_key", "ok">>),
                         Keypair(a.username, a.privKey \o PubSuffix,
                                 a.privKey, a.passPhrase)),
          evict |-> FALSE]
    ELSE LET a1 == Logged(Logged(a, <<"load_pem_private_key", "ValueError">>),
                          <<"deletePassword", a.privKey>>)
         IN  [a |-> IF a.tryNum = maxTries THEN Raised(a1, DecryptError)
                    ELSE [a1 EXCEPT !.pc = "getPassword",
                                    !.tryNum = a.tryNum + 1],
              evict |-> TRUE]

\* generateKeypair, the second half of an iteration: the unlock attempt, and
\* after a failure the eviction and the test for the last try (a loop that
\* ran out of tries without raising would return the last passphrase).
\* evict tells whether the keystore is to delete the passphrase.
tryUnlock(a, keyContents) ==
    IF load_pem_private_key(keyContents, a.passPhrase)
    THEN [a |-> Returned(Logged(a, <<"load_pem_private_key", "ok">>),
                         Keypair(a.username, a.privKey \o PubSuffix,
                                 a.privKey, a.passPhrase)),
          evict |-> FALSE]
    ELSE LET a1 == Logged(Logged(a, <<"load_pem_private_key", "ValueError">>),
                          <<"deletePassword", a.privKey>>)
         IN  [a |-> IF a.tryNum = maxTries - 1 THEN Raised(a1, DecryptError)
                    ELSE IF a.tryNum + 1 < maxTries
                    THEN [a1 EXCEPT !.pc = "getPassword",
                                    !.tryNum = a.tryNum + 1]
                    ELSE Returned(a1, Keypair(a.username,
                                              a.privKey \o PubSuffix,
                                              a.privKey, a.passPhrase)),
              evict |-> TRUE]

\* ------------------------------------------------------------------------
\* Repository.gitStatus
\* ------------------------------------------------------------------------

\* pygit2.GIT_STATUS_*: the bits of a file's status.
GIT_STATUS_CURRENT        == 0
GIT_STATUS_INDEX_NEW      == 1
GIT_STATUS_INDEX_MODIFIED == 2
GIT_STATUS_INDEX_DELETED  == 4
GIT_STATUS_WT_NEW         == 128
GIT_STATUS_WT_MODIFIED    == 256
GIT_STATUS_WT_DELETED     == 512
GIT_STATUS_IGNORED        == 16384
GIT_STATUS_CONFLICTED     == 32768

\* Repository.Status
kConflicted          == "Conflicted"
kCurrent             == "Current"
kIgnored             == "Ignored"
kIndexDeleted        == "Index deleted"
kIndexModified       == "Index modified"
kIndexNew            == "New Index"
kWorkingTreeDeleted  == "Working tree deleted"
kWorkingTreeModified == "Working tree modified"
kWorkingTreeNew      == "New working tree"

\* status & flag, as a truth value, for a flag of one bit.
BitAnd(status, flag) == (status \div flag) % 2 = 1

\* if cond: result.append(label)
AppendIf(result, cond, label) == IF cond THEN Append(result, label) ELSE result

\* gitStatus that tests the ignored flag before the conflicted flag.
gitStatusIgnoredFirst(status) ==
    LET r0 == AppendIf(<<>>, status = GIT_STATUS_CURRENT, kCurrent)
        r1 == AppendIf(r0, BitAnd(status, GIT_STATUS_IGNORED), kIgnored)
        r2 == AppendIf(r1, BitAnd(status, GIT_STATUS_CONFLICTED), kConflicted)
        r3 == AppendIf(r2, BitAnd(status, GIT_STATUS_INDEX_DELETED), kIndexDeleted)
        r4 == AppendIf(r3, BitAnd(status, GIT_STATUS_INDEX_MODIFIED), kIndexModified)
        r5 == AppendIf(r4, BitAnd(status, GIT_STATUS_INDEX_NEW), kIndexNew)
        r6 == AppendIf(r5, BitAnd(status, GIT_STATUS_WT_DELETED), kWorkingTreeDeleted)
        r7 == AppendIf(r6, BitAnd(status, GIT_STATUS_WT_MODIFIED), kWorkingTreeModified)
        r8 == AppendIf(r7, BitAnd(status, GIT_STATUS_WT_NEW), kWorkingTreeNew)
    IN  r8

\* Repository.gitStatus(status).
gitStatus(status) ==
    LET r0 == AppendIf(<<>>, status = GIT_STATUS_CURRENT, kCurrent)
        r1 == AppendIf(r0, BitAnd(status, GIT_STATUS_CONFLICTED), kConflicted)
        r2 == AppendIf(r1, BitAnd(status, GIT_STATUS_IGNORED), kIgnored)
        r3 == AppendIf(r2, BitAnd(status, GIT_STATUS_INDEX_DELETED), kIndexDeleted)
        r4 == AppendIf(r3, BitAnd(status, GIT_STATUS_INDEX_MODIFIED), kIndexModified)
        r5 == AppendIf(r4, BitAnd(status, GIT_STATUS_INDEX_NEW), kIndexNew)
        r6 == AppendIf(r5, BitAnd(status, GIT_STATUS_WT_DELETED), kWorkingTreeDeleted)
        r7 == AppendIf(r6, BitAnd(status, GIT_STATUS_WT_MODIFIED), kWorkingTreeModified)
        r8 == AppendIf(r7, BitAnd(status, GIT_STATUS_WT_NEW), kWorkingTreeNew)
    IN  r8

\* The statuses given to gitStatus: every combination of the eight flags.
StatusFlags ==
    {GIT_STATUS_CONFLICTED, GIT_STATUS_IGNORED, GIT_STATUS_INDEX_DELETED,
     GIT_STATUS_INDEX_MODIFIED, GIT_STATUS_INDEX_NEW, GIT_STATUS_WT_DELETED,
     GIT_STATUS_WT_MODIFIED, GIT_STATUS_WT_NEW}

RECURSIVE BitOr(_)
BitOr(S) ==
    IF S = {} THEN GIT_STATUS_CURRENT
    ELSE LET x == CHOOSE y \in S : TRUE IN x + BitOr(S \ {x})

Statuses == {BitOr(S) : S \in SUBSET StatusFlags}

\* ------------------------------------------------------------------------
\* The host identity check
\* ------------------------------------------------------------------------

\* The certificates the transport presents (None: pygit2 gives none), and
\* the hosts it connects to.
Certificates ==
    {"None", "ssh-rsa AAAA", "ssh-rsa BBBB", "ssh-ed25519 CCCC", "x509 DDDD",
     "x509 expired", "x509 self-signed"}
Hosts ==
    {"myhostname.com", "other.org", "github.com", "evil.example",
     "localhost", "10.0.0.1", "", "MyHostName.com"}

\* certificate_check that follows the verdict of the TLS/SSH library.
certificate_checkLibraryVerdict(certificate, valid, host) == valid

\* AuthCallback.certificate_check(certificate, valid, host).
certificate_check(certificate, valid, host) == TRUE

\* ------------------------------------------------------------------------
\* Push
\* ------------------------------------------------------------------------

\* The URL the remote was created with.
REMOTE_URL == <<"git", "://", "github.com", "/", "libgit2/pygit2.git">>

\* The name of the ref of branch b.
RefName(b) == <<"refs/heads/", b>>

\* The reasons a remote gives when it rejects the update of a ref.
RejectMessages == {"non-fast-forward", "pre-receive hook declined"}

\* str.format of a value that is a string or None.
Str(v) == IF v = None THEN "None" ELSE v

\* push_update_reference that returns when the remote rejected the ref.
push_update_referenceQuiet(w, refname, message) ==
    Call(w, "push_update_reference")

\* AuthCallback.push_update_reference(refname, message).
push_update_reference(w, refname, message) ==
    [Raise(Call(w, "push_update_reference"), PushRejectedError) EXCEPT
        !.msg = <<"Failed to push ">> \o refname \o <<" to remote: ">>
                    \o <<Str(message)>>]

\* What the transport and the remote do with a push: the transport fails,
\* or the remote accepts or rejects the update of the ref with a message;
\* the engine reports a rejected update to push_update_reference, and an
\* accepted one (with message None) or not, depending on the engine.
PushOutcomes ==
    {[status |-> "failed", message |-> None, reports |-> FALSE]}
        \cup {[status |-> "accepted", message |-> None, reports |-> r] :
                  r \in BOOLEAN}
        \cup {[status |-> "rejected", message |-> m, reports |-> TRUE] :
                  m \in RejectMessages}

\* Remote.push(specs, callbacks) of the engine: one update per ref of specs.
remote_push(w, specs, net) ==
    LET w1 == [Call(w, "remote.push") EXCEPT !.specs = specs]
        w2 == IF net.reports
              THEN push_update_reference(w1, specs[1], net.message)
              ELSE w1
    IN  IF net.status = "failed" THEN Raise(w1, TransportError)
        ELSE IF w2.exc # NoExc \/ net.status = "rejected" THEN w2
        ELSE [w2 EXCEPT !.tracking[w.HEAD] = w.refs[w.HEAD]]

\* push that sets the push URL after it has pushed.
pushSetUrlLast(w, net) ==
    IF currentBranch(w) = "None" THEN Raise(w, TypeError)
    ELSE LET w1 == remote_push(w, <<RefName(currentBranch(w))>>, net)
         IN  IF w1.exc # NoExc THEN w1
             ELSE [Call(Call(w1, "remoteURL"), "set_push_url") EXCEPT
                      !.pushUrl = REMOTE_URL]

\* Repository.push(remoteName): 'refs/heads/' + None is a TypeError.
push(w, net) ==
    LET w1 == [Call(Call(w, "remoteURL"), "set_push_url") EXCEPT
                  !.pushUrl = REMOTE_URL]
    IN  IF currentBranch(w1) = "None" THEN Raise(w1, TypeError)
        ELSE remote_push(w1, <<RefName(currentBranch(w1))>>, net)

\* ------------------------------------------------------------------------
\* Actions: one per operation
\* ------------------------------------------------------------------------
MergeCommitArgs == {"None", "True"}
Messages == {<<>>, <<"msg">>}

\* The engine's own analysis, and an engine answering any set of flags.
RealOracle == {[real |-> TRUE, flags |-> {}]}
AnyOracle  == {[real |-> FALSE, flags |-> F] : F \in SUBSET AnalysisFlags}

\* The operation op (called with arg on branch HEAD) ended in world w.
Install(w, op, arg) ==
    /\ Len(w.objects) <= MaxCommits
    /\ objects'   = w.objects
    /\ refs'      = w.refs
    /\ tracking'  = w.tracking
    /\ HEAD'      = w.HEAD
    /\ index'     = w.index
    /\ conflicts' = w.conflicts
    /\ workTree'  = w.workTree
    /\ mergeHead' = w.mergeHead
    /\ pushUrl'   = w.pushUrl
    /\ last'      = [op |-> op, arg |-> arg, exc |-> w.exc, calls |-> w.calls,
                     flags |-> w.flags, ret |-> w.ret, msg |-> w.msg,
                     specs |-> w.specs]

GitInit ==
    /\ objects    = <<>>
    /\ refs       = [b \in Branches |-> 0]
    /\ tracking   = [b \in Branches |-> 0]
    /\ HEAD       = MASTER_REF
    /\ index      = EmptyTree
    /\ conflicts  = {}
    /\ workTree   = EmptyTree
    /\ mergeHead  = 0
    /\ originRefs = [b \in Branches |-> 0]
    /\ pushUrl    = <<>>
    /\ last       = [op |-> "createRepository", arg |-> "", exc |-> NoExc,
                     calls |-> <<>>, flags |-> {}, ret |-> "None", msg |-> <<>>,
                     specs |-> <<>>]

\* The credential callback is not exercised.
AuthIdle ==
    /\ sshConfig = [exists |-> FALSE, hosts |-> EmptyDict]
    /\ keyFiles  = EmptyDict
    /\ keystore  = [k \in KeyPaths |-> None]
    /\ auth      = [p \in Resolvers |-> IdleAuth]

Init == GitInit /\ AuthIdle

Add ==
    \E f \in Files, v \in LocalContents :
        /\ Install(add(World, f, v), "add", "")
        /\ UNCHANGED <<originRefs, authVars>>

CreateCommit ==
    \E m \in Messages :
        /\ Install(createCommit(World, m), "createCommit", "")
        /\ UNCHANGED <<originRefs, authVars>>

\* What the transport does in a fetch: it updates the remote-tracking refs of
\* every branch, or fails after updating those of some.
NetOutcomes ==
    {[ok |-> TRUE, written |-> Branches]}
        \cup {[ok |-> FALSE, written |-> W] : W \in SUBSET Branches}

Fetch ==
    \E net \in NetOutcomes :
        /\ Install(fetch(World, originRefs, net.written, net.ok), "fetch", "")
        /\ UNCHANGED <<originRefs, authVars>>

CheckoutBranch ==
    \E name \in BranchNames :
        /\ Install(checkoutBranch(World, name), "checkoutBranch", name)
        /\ UNCHANGED <<originRefs, authVars>>

\* The engine is asked for an analysis only after a fetch that succeeded.
PullWith(oracles) ==
    \E net \in NetOutcomes, mergeCommit \in MergeCommitArgs :
        \E oracle \in IF net.ok THEN oracles ELSE RealOracle :
            /\ Install(pull(World, originRefs, net.written, net.ok, oracle,
                            mergeCommit),
                       "pull", mergeCommit)
            /\ UNCHANGED <<originRefs, authVars>>

Pull == PullWith(RealOracle)

PullAnyFlags == PullWith(AnyOracle)

\* Someone else commits tree t to branch b of the remote repository: on top
\* of the branch, or as a new branch forked from an existing one (the first
\* commit of the remote is a root).
RemoteCommit ==
    \E b \in Branches, t \in [Files -> RemoteContents] :
        \E p \in IF originRefs[b] # 0 THEN {originRefs[b]}
                 ELSE IF \A b2 \in Branches : originRefs[b2] = 0 THEN {0}
                 ELSE {originRefs[b2] : b2 \in Branches} \ {0} :
            /\ Len(objects) < MaxCommits
            /\ objects' = Append(objects,
                   [parents |-> IF p = 0 THEN <<>> ELSE <<p>>, tree |-> t,
                    message |-> <<"remote">>])
            /\ originRefs' = [originRefs EXCEPT ![b] = Len(objects) + 1]
            /\ UNCHANGED <<refs, tracking, HEAD, index, conflicts, workTree,
                           mergeHead, pushUrl, last, authVars>>

\* The remote takes the update of the branch when it accepted it and the
\* transport delivered it; it accepts only what fast-forwards its branch.
PushOf(net) ==
    LET w == push(World, net)
        delivered == Has(w.calls, "remote.push") /\ net.status = "accepted"
    IN  /\ net.status = "accepted" =>
               IF head(World) = 0 \/ originRefs[HEAD] = 0 THEN TRUE
               ELSE originRefs[HEAD] \in Ancestors(objects, head(World))
        /\ Install(w, "push", "")
        /\ originRefs' = IF delivered
                         THEN [originRefs EXCEPT ![HEAD] = refs[HEAD]]
                         ELSE originRefs
        /\ UNCHANGED authVars

Push == \E net \in PushOutcomes : PushOf(net)

\* The commits of the repository's object database: those its branches and
\* its remote-tracking refs reach.
Known(w) ==
    UNION {Ancestors(w.objects, c) :
              c \in ({w.refs[b] : b \in Branches}
                        \cup {w.tracking[b] : b \in Branches}) \ {0}}

MergeOf(commitID) ==
    /\ Install(merge(World, commitID), "merge", commitID)
    /\ UNCHANGED <<originRefs, authVars>>

Merge == \E commitID \in Known(World) : MergeOf(commitID)

\* The queries Repository.head (the reference is given by its shorthand)
\* and Repository.currentBranch.
HeadQuery ==
    /\ Install(Return(World, IF head(World) = 0 THEN "None" ELSE HEAD),
               "head", "")
    /\ UNCHANGED <<originRefs, authVars>>

CurrentBranch ==
    /\ Install(Return(World, currentBranch(World)), "currentBranch", "")
    /\ UNCHANGED <<originRefs, authVars>>

Next ==
    \/ Add
    \/ CreateCommit
    \/ Fetch
    \/ CheckoutBranch
    \/ Pull
    \/ RemoteCommit

Spec == Init /\ [][Next]_vars

NextAnyFlags ==
    \/ Add
    \/ CreateCommit
    \/ Fetch
    \/ CheckoutBranch
    \/ PullAnyFlags
    \/ RemoteCommit

SpecAnyFlags == Init /\ [][NextAnyFlags]_vars

\* The operations of Spec, with merge and the two queries.
NextMerge ==
    \/ Add
    \/ CreateCommit
    \/ Fetch
    \/ CheckoutBranch
    \/ Pull
    \/ RemoteCommit
    \/ Merge
    \/ HeadQuery
    \/ CurrentBranch

SpecMerge == Init /\ [][NextMerge]_vars

\* Repository.gitStatus is a static method: it reads no repository.
GitStatus ==
    \E status \in Statuses :
        /\ Install(Return(World, gitStatus(status)), "gitStatus", status)
        /\ UNCHANGED <<originRefs, authVars>>

SpecStatus == Init /\ [][GitStatus]_vars

\* The transport asks for the host identity check.
CertificateCheck ==
    \E certificate \in Certificates, valid \in BOOLEAN, host \in Hosts :
        /\ Install(Return(World, certificate_check(certificate, valid, host)),
                   "certificate_check", <<certificate, valid, host>>)
        /\ UNCHANGED <<originRefs, authVars>>

SpecCertificate == Init /\ [][CertificateCheck]_vars

\* The operations around push.
NextPush ==
    \/ Add
    \/ CreateCommit
    \/ Fetch
    \/ CheckoutBranch
    \/ RemoteCommit
    \/ Push

SpecPush == Init /\ [][NextPush]_vars


\* ------------------------------------------------------------------------
\* Credential resolution
\* ------------------------------------------------------------------------
ConfigFiles ==
    { [exists |-> FALSE, hosts |-> EmptyDict],
      [exists |-> TRUE,  hosts |-> EmptyDict],
      [exists |-> TRUE,  hosts |-> [h \in {"myhostname.com"} |-> <<WorkKey>>]] }

KeyFileSets ==
    UNION {[S -> {PlainKey} \cup EncryptedKeys] : S \in SUBSET KeyPaths}

\* The environment of a credential resolution: any SSH configuration, any
\* key files, any passphrases cached by an earlier resolution.
AuthInit ==
    /\ sshConfig \in ConfigFiles
    /\ keyFiles  \in KeyFileSets
    /\ keystore  \in [KeyPaths -> {None} \cup Passphrases]
    /\ auth      = [p \in Resolvers |-> IdleAuth]

\* The transport calls AuthCallback.credentials(url, username_from_url, _).
Credentials(p) ==
    \E url \in Urls, username \in Usernames :
        /\ auth[p].pc \in {"idle", "done"}
        /\ auth' = [auth EXCEPT
                       ![p] = credentials(url, username, sshConfig, keyFiles)]
        /\ UNCHANGED <<sshConfig, keyFiles, keystore, gitVars>>

\* The loop of generateKeypair asks the keystore for the passphrase.
GetPassword(p) ==
    \E answer \in {None} \cup Passphrases :
        LET got == getPassword(keystore, auth[p].privKey, answer)
        IN  /\ auth[p].pc = "getPassword"
            /\ keystore' = got.store
            /\ auth' = [auth EXCEPT
                           ![p] = requestPassphrase(auth[p], got.password)]
            /\ UNCHANGED <<sshConfig, keyFiles, gitVars>>

\* Unlock whose eviction empties the keystore: the passphrases of every key
\* path are deleted, not the one of the key that failed to unlock.
UnlockEvictEveryKey(p) ==
    /\ auth[p].pc = "unlock"
    /\ LET tried == tryUnlock(auth[p], keyFiles[auth[p].privKey])
       IN  /\ auth' = [auth EXCEPT ![p] = tried.a]
           /\ keystore' = IF tried.evict
                          THEN [k \in KeyPaths |-> None]
                          ELSE keystore
    /\ UNCHANGED <<sshConfig, keyFiles, gitVars>>

\* The loop of generateKeypair tries the passphrase on the key.
Unlock(p) ==
    /\ auth[p].pc = "unlock"
    /\ LET tried == tryUnlock(auth[p], keyFiles[auth[p].privKey])
       IN  /\ auth' = [auth EXCEPT ![p] = tried.a]
           /\ keystore' = IF tried.evict
                          THEN deletePassword(keystore, auth[p].privKey)
                          ELSE keystore
    /\ UNCHANGED <<sshConfig, keyFiles, gitVars>>

AuthNext ==
    \/ Credentials("r1")
    \/ GetPassword("r1")
    \/ Unlock("r1")

AuthSpecInit == GitInit /\ AuthInit

\* Two transports resolve credentials at the same time, each with its own
\* AuthCallback; the statements of the two interleave at the calls on the
\* keystore and on the key.
AuthNextConcurrent ==
    \E p \in Resolvers :
        \/ Credentials(p)
        \/ GetPassword(p)
        \/ Unlock(p)

\* The environment of two resolutions that can select different keys: an
\* SSH configuration that names the work key for one host, both key files
\* encrypted, any passphrases cached.
AuthInitConcurrent ==
    /\ sshConfig = [exists |-> TRUE,
                    hosts |-> [h \in {"myhostname.com"} |-> <<WorkKey>>]]
    /\ keyFiles  \in [KeyPaths -> EncryptedKeys]
    /\ keystore  \in [KeyPaths -> {None} \cup Passphrases]
    /\ auth      = [p \in Resolvers |-> IdleAuth]

AuthSpecConcurrentInit == GitInit /\ AuthInitConcurrent

AuthSpecConcurrent == AuthSpecConcurrentInit /\ [][AuthNextConcurrent]_vars

AuthSpec == AuthSpecInit /\ [][AuthNext]_vars

\* credentials is synchronous: once called, each statement of the loop of
\* generateKeypair runs when the one before it has returned, and the
\* keystore answers every request.
AuthSpecFair ==
    /\ AuthSpecInit
    /\ [][AuthNext]_vars
    /\ WF_vars(GetPassword("r1"))
    /\ WF_vars(Unlock("r1"))

\* ------------------------------------------------------------------------
\* Properties
\* ------------------------------------------------------------------------
IndexOf(seq, x) == CHOOSE i \in 1..Len(seq) : seq[i] = x

\* The last operation was a pull that obtained a merge-analysis result.
Analysed == last.op = "pull" /\ Has(last.calls, "merge_analysis")

\* The calls pull made after merge_analysis.
AfterAnalysis ==
    SubSeq(last.calls, IndexOf(last.calls, "merge_analysis") + 1,
           Len(last.calls))

\* The order in which the specification has pull test the flags.
CheckOrder == <<UP_TO_DATE, FASTFORWARD, NORMAL, UNBORN>>

\* The first flag of CheckOrder present in F, "unknown" when there is none.
FirstFlag(F) ==
    IF \E i \in 1..Len(CheckOrder) : CheckOrder[i] \in F
    THEN CheckOrder[CHOOSE i \in 1..Len(CheckOrder) :
                        /\ CheckOrder[i] \in F
                        /\ \A j \in 1..(i - 1) : CheckOrder[j] \notin F]
    ELSE "unknown"

\* The branch of pull that ran, read from the calls it made and from the
\* exception it ended with.
RanUpToDate    == AfterAnalysis = <<>> /\ last.exc = NoExc
RanFastForward == AfterAnalysis # <<>> /\ Head(AfterAnalysis) = "checkout_tree"
RanNormal      == AfterAnalysis # <<>> /\ Head(AfterAnalysis) = "self.merge"
RanUnborn      == AfterAnalysis = <<>> /\ last.exc = UnbornError
RanUnknown     == AfterAnalysis = <<>> /\ last.exc = UnknownError

\* C1: for every set of flags the merge analysis answers, pull runs the
\* branch of the first flag in the order up-to-date, fast-forward, normal,
\* unborn that the set holds, and the unknown branch only for the empty set;
\* a result with fast-forward and normal never runs the three-way merge.
C1_CheckOrder ==
    Analysed =>
        /\ RanUpToDate    <=> FirstFlag(last.flags) = UP_TO_DATE
        /\ RanFastForward <=> FirstFlag(last.flags) = FASTFORWARD
        /\ RanNormal      <=> FirstFlag(last.flags) = NORMAL
        /\ RanUnborn      <=> FirstFlag(last.flags) = UNBORN
        /\ RanUnknown     <=> FirstFlag(last.flags) = "unknown"
        /\ RanUnknown     <=> last.flags = {}
        /\ {FASTFORWARD, NORMAL} \subseteq last.flags
               => ~Has(last.calls, "_repository.merge")

C1_Witness ==
    /\ Analysed
    /\ last.flags = {FASTFORWARD, NORMAL, UNBORN}
    /\ RanFastForward
    /\ last.exc = NoExc

\* The flags resolve as a fast-forward, as a normal merge, as up-to-date.
ResolvesAs(rec, flag) == FirstFlag(rec.flags) = flag

\* This step is a pull whose merge-analysis result resolves as flag.
PullResolving(flag) ==
    /\ last'.op = "pull"
    /\ Has(last'.calls, "merge_analysis")
    /\ ResolvesAs(last', flag)
    /\ Pull

\* C2 (as claimed): a pull on any current branch B that resolves as
\* fast-forward ends with refs/heads/B (and so HEAD) at the commit of the
\* remote-tracking ref of B, the working tree matching that commit, and no
\* commit created.
C2_FastForwardAnyBranch ==
    [][PullResolving(FASTFORWARD) =>
          /\ HEAD' = HEAD
          /\ refs'[HEAD'] = tracking'[HEAD']
          /\ workTree' = TreeOf(World', tracking'[HEAD'])
          /\ objects' = objects]_vars

\* C3: a pull whose analysis is up-to-date returns normally and changes
\* nothing but what its fetch wrote: no commit is created, working tree,
\* index, every local branch ref, HEAD and the merge state are unchanged.
C3_UpToDateNoOp ==
    [][PullResolving(UP_TO_DATE) =>
          /\ last'.exc = NoExc
          /\ UNCHANGED <<objects, workTree, index, conflicts, refs, HEAD,
                         mergeHead>>]_vars

C3_Witness ==
    /\ Analysed
    /\ ResolvesAs(last, UP_TO_DATE)
    /\ last.exc = NoExc
    /\ index # TreeOf(World, head(World))
    /\ mergeHead # 0

\* C4: a pull that resolves as a normal merge and whose three-way merge
\* leaves conflicts fails with the conflict error, creates no commit (also
\* when the merge-commit flag is set), moves neither the branch refs nor
\* HEAD, and leaves the repository in the merge state.
C4_ConflictLeavesMergeState ==
    [][(PullResolving(NORMAL)
            /\ Has(last'.calls, "_repository.merge") /\ conflicts' # {}) =>
          /\ last'.exc = ConflictError
          /\ ~Has(last'.calls, "create_commit")
          /\ ~Has(last'.calls, "state_cleanup")
          /\ UNCHANGED <<objects, refs, HEAD>>
          /\ mergeHead' = tracking'[HEAD]
          /\ mergeHead' # 0]_vars

C4_Witness ==
    /\ Analysed
    /\ ResolvesAs(last, NORMAL)
    /\ last.exc = ConflictError
    /\ last.arg = "True"
    /\ conflicts # {}
    /\ mergeHead # 0

\* C5: in a pull that resolves as a normal merge without conflicts, a commit
\* with the message 'Pull from remote of <current branch>' is created if and
\* only if the merge-commit flag is truthy, it is created before the merge
\* state is cleared, and the merge state is cleared when pull returns.
C5_CleanMergeCommitsIffFlag ==
    [][(PullResolving(NORMAL)
            /\ Has(last'.calls, "_repository.merge") /\ conflicts' = {}) =>
          /\ last'.exc = NoExc
          /\ Has(last'.calls, "create_commit") <=> Truthy(last'.arg)
          /\ Truthy(last'.arg) =>
                /\ Len(objects') = Len(objects) + 1
                /\ objects'[Len(objects')].message = PullMessage(HEAD)
                /\ refs'[HEAD] = Len(objects')
                /\ IndexOf(last'.calls, "create_commit")
                       < IndexOf(last'.calls, "state_cleanup")
          /\ ~Truthy(last'.arg) => objects' = objects
          /\ last'.calls[Len(last'.calls)] = "state_cleanup"
          /\ mergeHead' = 0]_vars

C5_Witness ==
    /\ Analysed
    /\ ResolvesAs(last, NORMAL)
    /\ last.exc = NoExc
    /\ Has(last.calls, "create_commit")
    /\ objects[Len(objects)].message = PullMessage(HEAD)
    /\ mergeHead = 0

\* ------------------------------------------------------------------------
\* Properties of credential resolution
\* ------------------------------------------------------------------------
\* The resolution observed.
R == auth["r1"]

\* The calls of the resolution on the keystore and on the key, in order.
IsKeyCall(entry) ==
    entry[1] \in {"getPassword", "load_pem_private_key", "deletePassword"}
KeyCalls == SelectSeq(R.log, IsKeyCall)
Count(seq, name) == Cardinality({i \in 1..Len(seq) : seq[i][1] = name})
Requests  == Count(R.log, "getPassword")
Evictions == Count(R.log, "deletePassword")

\* The passphrases the keystore answered, in order.
IsRequest(entry) == entry[1] = "getPassword"
Answers == SelectSeq(R.log, IsRequest)

\* The key of the resolution exists and is encrypted.
KeyIsEncrypted ==
    R.privKey \in DOMAIN keyFiles /\ IsEncrypted(keyFiles[R.privKey])
RightPassphrase == keyFiles[R.privKey].passphrase

\* One failed iteration of the loop, as calls.
FailedTry == <<"getPassword", "load_pem_private_key", "deletePassword">>

\* C6: with an encrypted key and a keystore that answers every request with
\* a passphrase that does not unlock it, the resolution requests a
\* passphrase exactly 5 times, evicts the passphrase after each failure and
\* before the next request, then fails with the decryption error; there is
\* never a 6th request.
C6_WrongPassphraseExhaustsTries ==
    /\ Requests <= 5
    /\ (R.pc = "getPassword" /\ R.tryNum > 0) =>
          /\ R.log[Len(R.log)][1] = "deletePassword"
          /\ keystore[R.privKey] = None
    /\ (/\ R.pc = "done"
        /\ Requests > 0
        /\ \A i \in 1..Len(Answers) :
              Answers[i][2] \notin {None, RightPassphrase}) =>
          /\ Requests = 5
          /\ Evictions = 5
          /\ Len(KeyCalls) = 15
          /\ \A i \in 1..Len(KeyCalls) :
                KeyCalls[i][1] = FailedTry[((i - 1) % 3) + 1]
          /\ R.exc = DecryptError
          /\ R.keypair = NoKeypair
          /\ keystore[R.privKey] = None

C6_Witness ==
    /\ R.pc = "done"
    /\ R.exc = DecryptError
    /\ Requests = 5
    /\ \A i \in 1..Len(Answers) : Answers[i][2] = Answers[1][2]

\* C7: at any iteration of the loop, when the keystore answers no
\* passphrase the resolution fails at once with the secret-unavailable
\* error: that request is its last call, no unlock and no eviction follow.
C7_NoPassphraseFailsAtOnce ==
    \A i \in 1..Len(R.log) :
        R.log[i] = <<"getPassword", None>> =>
            /\ i = Len(R.log)
            /\ R.pc = "done"
            /\ R.exc = NoPasswordError
            /\ R.keypair = NoKeypair
            /\ Evictions = Requests - 1

C7_Witness ==
    /\ R.pc = "done"
    /\ R.exc = NoPasswordError
    /\ Requests = 3
    /\ R.log[Len(R.log)] = <<"getPassword", None>>

\* C8: for a key file that is not encrypted the resolution returns, without
\* entering the loop, a credential with no passphrase, and makes no call on
\* the keystore.
C8_PlainKeyNoKeystore ==
    (/\ R.pc # "idle"
     /\ R.privKey \in DOMAIN keyFiles
     /\ ~IsEncrypted(keyFiles[R.privKey])) =>
        /\ R.pc = "done"
        /\ R.exc = NoExc
        /\ R.keypair = Keypair(R.username, R.privKey \o <<".pub">>, R.privKey,
                               None)
        /\ KeyCalls = <<>>

C8_Witness ==
    /\ R.pc = "done"
    /\ R.privKey \in DOMAIN keyFiles
    /\ ~IsEncrypted(keyFiles[R.privKey])
    /\ keystore[R.privKey] # None
    /\ R.keypair.passphrase = None
    /\ R.keypair.privkey = R.privKey

\* C9: when the k-th passphrase answered (1 <= k <= 5) is the first that
\* unlocks the key, the resolution stops there: k requests, k - 1 evictions,
\* the passphrase that unlocked the key stays in the keystore, and the
\* credential holds that passphrase, the username, the private key path and
\* the private key path + '.pub'.
C9_FirstRightPassphraseWins ==
    /\ \A i \in 1..Len(Answers) :
          (KeyIsEncrypted /\ Answers[i][2] = RightPassphrase) =>
              /\ i = Len(Answers)
              /\ R.pc \in {"unlock", "done"}
    /\ (/\ R.pc = "done"
        /\ KeyIsEncrypted
        /\ Requests > 0
        /\ Answers[Len(Answers)][2] = RightPassphrase) =>
          /\ Requests \in 1..5
          /\ Evictions = Requests - 1
          /\ R.log[Len(R.log)] = <<"load_pem_private_key", "ok">>
          /\ R.exc = NoExc
          /\ R.keypair = Keypair(R.username, R.privKey \o <<".pub">>,
                                 R.privKey, RightPassphrase)
          /\ keystore[R.privKey] = RightPassphrase

C9_Witness ==
    /\ R.pc = "done"
    /\ KeyIsEncrypted
    /\ Requests = 5
    /\ R.exc = NoExc
    /\ R.keypair.passphrase = RightPassphrase

\* The URL as urlparse sees it, and whether a host name can be extracted.
Normalized(url) == IF HasScheme(url) THEN url ELSE <<"ssh", "://">> \o url
NoHostname(url) == hostname(Normalized(url)) = ""

\* C10 (as claimed): the resolution for a URL from which no host name can be
\* extracted fails with the input-validation error, whether or not the SSH
\* configuration file exists, before any access to the file system.
C10_NoHostnameFailsFirst ==
    (R.pc # "idle" /\ NoHostname(R.url)) =>
        /\ R.pc = "done"
        /\ R.exc = InvalidUrlError
        /\ R.log = <<>>

\* ------------------------------------------------------------------------
\* Properties of merge and of the queries
\* ------------------------------------------------------------------------

\* This step is a merge, or a pull whose fetch succeeded, on an unborn HEAD.
UnbornMergeAttempt ==
    /\ head(World) = 0
    /\ last'.op \in {"merge", "pull"}
    /\ last'.exc # TransportError
    /\ (Merge \/ Pull)

\* C11 (as claimed): on a repository with no commits, merge(commit) and pull
\* both fail with the unborn error (the ValueError of the unborn branch) and
\* leave refs, index and merge state unchanged.
C11_UnbornMergeFails ==
    [][UnbornMergeAttempt =>
          /\ last'.exc = UnbornError
          /\ UNCHANGED <<refs, index, conflicts, mergeHead>>]_vars

\* No branch of the repository has a commit.
NoCommits == \A b \in Branches : refs[b] = 0

\* C12: while the repository has no commits, head() and currentBranch()
\* return None without raising; once a commit has been created,
\* currentBranch() returns the short name of the branch HEAD points to (and
\* head() a reference); neither query changes a ref or anything else.
C12_QueriesOnUnborn ==
    [][(last'.op \in {"head", "currentBranch"}
            /\ (HeadQuery \/ CurrentBranch)) =>
          /\ last'.exc = NoExc
          /\ last'.calls = <<>>
          /\ UNCHANGED repoVars
          /\ NoCommits => last'.ret = "None"
          /\ ~NoCommits => (last'.ret = HEAD /\ refs[HEAD] # 0)]_vars

C12_Witness ==
    /\ last.op = "currentBranch"
    /\ last.ret = "None"
    /\ last.exc = NoExc
    /\ NoCommits
    /\ tracking[HEAD] # 0

\* C13: whatever the history, merge(c) with c the commit HEAD points to
\* fails with the self-merge error without invoking the engine's three-way
\* merge: index, working tree, refs and merge state are unchanged.
C13_SelfMergeFails ==
    [][(/\ last'.op = "merge"
        /\ head(World) # 0
        /\ last'.arg = head(World)
        /\ Merge) =>
          /\ last'.exc = SelfMergeError
          /\ ~Has(last'.calls, "_repository.merge")
          /\ UNCHANGED repoVars]_vars

C13_Witness ==
    /\ last.op = "merge"
    /\ last.arg = head(World)
    /\ last.exc = SelfMergeError
    /\ mergeHead # 0
    /\ conflicts # {}

\* ------------------------------------------------------------------------
\* Properties of the failures of pull
\* ------------------------------------------------------------------------

\* This step is a pull whose fetch fails, after the transport wrote the
\* remote-tracking refs of some branches.
PullFetchFailing ==
    /\ last'.op = "pull"
    /\ \E net \in NetOutcomes, mergeCommit \in MergeCommitArgs,
          oracle \in RealOracle :
          /\ ~net.ok
          /\ Install(pull(World, originRefs, net.written, net.ok, oracle,
                          mergeCommit),
                     "pull", mergeCommit)

\* C14: a pull whose fetch fails ends with that failure and makes no later
\* step: no merge analysis, checkout, ref or HEAD update, merge, commit or
\* cleanup; only remote-tracking refs, which fetch wrote, can differ.
C14_FetchFailureAbortsPull ==
    [][PullFetchFailing =>
          /\ last'.exc = TransportError
          /\ last'.calls = <<"fetch">>
          /\ UNCHANGED <<objects, refs, HEAD, index, conflicts, workTree,
                         mergeHead>>
          /\ \A b \in Branches : tracking'[b] \in {tracking[b], originRefs[b]}
        ]_vars

C14_Witness ==
    /\ last.op = "pull"
    /\ last.exc = TransportError
    /\ refs[HEAD] # 0
    /\ tracking[HEAD] # 0
    /\ tracking[HEAD] \notin Ancestors(objects, refs[HEAD])
    /\ mergeHead = 0

\* C15: a pull whose merge analysis answers none of the four flags fails
\* with the error 'Unknown merge analysis result' and changes no local ref,
\* nor the index, the working tree or the merge state.
C15_UnknownAnalysisFails ==
    [][(/\ last'.op = "pull"
        /\ Has(last'.calls, "merge_analysis")
        /\ last'.flags = {}
        /\ PullAnyFlags) =>
          /\ last'.exc = UnknownError
          /\ UNCHANGED <<objects, refs, HEAD, index, conflicts, workTree,
                         mergeHead>>]_vars

C15_Witness ==
    /\ Analysed
    /\ last.flags = {}
    /\ last.exc = UnknownError
    /\ refs[HEAD] # tracking[HEAD]
    /\ workTree # TreeOf(World, tracking[HEAD])

\* ------------------------------------------------------------------------
\* Properties of push
\* ------------------------------------------------------------------------

\* seq holds sub as a run of consecutive elements.
Contains(seq, sub) ==
    \E i \in 1..(Len(seq) - Len(sub) + 1) :
        SubSeq(seq, i, i + Len(sub) - 1) = sub

\* C16: when the remote rejects the update of the ref during a push, the
\* hook push_update_reference fails the push, at that ref (its only call),
\* with the error 'Failed to push <ref> to remote: <message>' that holds the
\* ref name and the remote's message as the remote gave it; the push never
\* returns normally.
C16_RejectedPushFails ==
    [][\A net \in PushOutcomes :
          (/\ last'.op = "push"
           /\ net.status = "rejected"
           /\ head(World) # 0
           /\ PushOf(net)) =>
             /\ last'.exc = PushRejectedError
             /\ Contains(last'.msg, <<"refs/heads/", HEAD>>)
             /\ Contains(last'.msg, <<net.message>>)
             /\ Len(last'.msg) = 5
             /\ Cardinality({i \in 1..Len(last'.calls) :
                   last'.calls[i] = "push_update_reference"}) = 1
             /\ last'.calls[Len(last'.calls)] = "push_update_reference"
             /\ UNCHANGED <<refs, tracking, originRefs>>]_vars

C16_Witness ==
    /\ last.op = "push"
    /\ last.exc = PushRejectedError
    /\ last.msg = <<"Failed to push ", "refs/heads/", "dev", " to remote: ",
                    "non-fast-forward">>
    /\ originRefs[HEAD] \notin Ancestors(objects, refs[HEAD])

\* ------------------------------------------------------------------------
\* Properties of gitStatus
\* ------------------------------------------------------------------------

\* The flags and their labels, in the order of the checks.
StatusLabels ==
    << <<GIT_STATUS_CONFLICTED,     "Conflicted">>,
       <<GIT_STATUS_IGNORED,        "Ignored">>,
       <<GIT_STATUS_INDEX_DELETED,  "Index deleted">>,
       <<GIT_STATUS_INDEX_MODIFIED, "Index modified">>,
       <<GIT_STATUS_INDEX_NEW,      "New Index">>,
       <<GIT_STATUS_WT_DELETED,     "Working tree deleted">>,
       <<GIT_STATUS_WT_MODIFIED,    "Working tree modified">>,
       <<GIT_STATUS_WT_NEW,         "New working tree">> >>

\* The flags of StatusFlags set in status: status is their sum.
FlagsOf(status) ==
    CHOOSE S \in SUBSET StatusFlags : BitOr(S) = status

\* The labels of the flags set in status, in the order of StatusLabels.
LabelsOf(status) ==
    LET IsSet(entry) == entry[1] \in FlagsOf(status)
        set == SelectSeq(StatusLabels, IsSet)
    IN  [i \in 1..Len(set) |-> set[i][2]]

\* C17: for every combination of the eight flags gitStatus returns the
\* labels of the flags that are set, each once, in the order conflicted,
\* ignored, index-deleted, index-modified, index-new, working-tree-deleted,
\* working-tree-modified, working-tree-new (eight labels for all of them);
\* for the status 0 (current) it returns the label 'Current' alone, and
\* 'Current' comes with no other label.
C17_GitStatusLabels ==
    last.op = "gitStatus" =>
        /\ last.exc = NoExc
        /\ last.arg = GIT_STATUS_CURRENT => last.ret = <<"Current">>
        /\ last.arg # GIT_STATUS_CURRENT => last.ret = LabelsOf(last.arg)
        /\ \A i, j \in 1..Len(last.ret) : last.ret[i] = last.ret[j] => i = j
        /\ Has(last.ret, "Current") => Len(last.ret) = 1
        /\ Len(last.ret) = IF last.arg = GIT_STATUS_CURRENT THEN 1
                           ELSE Cardinality(FlagsOf(last.arg))

C17_Witness ==
    /\ last.op = "gitStatus"
    /\ last.arg = BitOr(StatusFlags)
    /\ Len(last.ret) = 8
    /\ last.ret[1] = "Conflicted"
    /\ last.ret[8] = "New working tree"

\* ------------------------------------------------------------------------
\* Properties of credential resolution: the key file, termination, the
\* missing configuration file
\* ------------------------------------------------------------------------

\* The resolution has selected a private key path.
KeySelected == R.pc # "idle" /\ R.privKey # <<>>

\* C18: when the private key path selected for the host is not an existing
\* file, the resolution fails with the not-found error, before it reads the
\* key file and before it calls the secret store; so every credential
\* returned names a private key file that exists.
C18_MissingKeyFails ==
    /\ (KeySelected /\ R.privKey \notin DOMAIN keyFiles) =>
          /\ R.pc = "done"
          /\ R.exc = KeyNotFoundError
          /\ R.keypair = NoKeypair
          /\ R.log[Len(R.log)] = <<"isfile", R.privKey>>
          /\ ~Has(R.log, <<"open", R.privKey>>)
          /\ KeyCalls = <<>>
    /\ (R.pc = "done" /\ R.exc = NoExc) =>
          /\ R.keypair.privkey \in DOMAIN keyFiles
          /\ R.keypair.privkey = R.privKey

C18_Witness ==
    /\ R.pc = "done"
    /\ R.exc = KeyNotFoundError
    /\ R.privKey = <<"/home/dev", "/.ssh/id_work">>
    /\ keyFiles # EmptyDict
    /\ keystore[R.privKey] # None

\* C19: credential resolution terminates whatever the secret store answers
\* (absent, wrong or right passphrases, the same wrong passphrase again
\* after an eviction): there are never more than 5 passphrase requests, and
\* a resolution that entered the loop ends, with a credential or an error.
C19_ResolutionTerminates ==
    /\ [](Requests <= 5)
    /\ (R.pc \in {"getPassword", "unlock"}) ~> (R.pc = "done")

C19_Witness ==
    /\ R.pc = "done"
    /\ R.exc = NoPasswordError
    /\ Requests = 5
    /\ Evictions = 4

\* An SSH configuration file that exists and has no host block.
EmptyConfig == [exists |-> TRUE, hosts |-> EmptyDict]

\* C20: when the SSH configuration file does not exist, getSSHConfig raises
\* no error and the resolution for a URL with a host name goes on with the
\* default private key path '~/.ssh/id_rsa', home-expanded, exactly as it
\* does with a configuration file that exists and names no identity file
\* for the host (which it opens).
C20_MissingConfigUsesDefaultKey ==
    [][(/\ Credentials("r1")
        /\ ~sshConfig.exists
        /\ ~NoHostname(auth'["r1"].url)) =>
          LET a     == auth'["r1"]
              other == credentials(a.url, a.username, EmptyConfig, keyFiles)
          IN  /\ a.exc \in {NoExc, KeyNotFoundError}
              /\ a.privKey = <<"/home/dev", "/.ssh/id_rsa">>
              /\ a.log[1] = <<"isfile", <<"/home/dev", "/.ssh/config">> >>
              /\ Len(a.log) > 1 => a.log[2][1] = "isfile"
              /\ [a EXCEPT !.log = <<>>] = [other EXCEPT !.log = <<>>]
              /\ Tail(a.log) = Tail(Tail(other.log))]_vars

C20_Witness ==
    /\ R.pc = "done"
    /\ ~sshConfig.exists
    /\ hostname(Normalized(R.url)) = "myhostname.com"
    /\ R.exc = NoExc
    /\ R.keypair.privkey = <<"/home/dev", "/.ssh/id_rsa">>
    /\ <<"/home/dev", "/.ssh/id_work">> \in DOMAIN keyFiles

\* C21: push first sets the push URL of the remote to the remote's URL and
\* only then pushes; what it pushes is the single ref refs/heads/<current
\* branch>: no other branch of the remote is updated, and no local branch
\* ref (nor HEAD) is changed.
C21_PushCurrentBranchOnly ==
    [][(last'.op = "push" /\ Push) =>
          /\ pushUrl' = REMOTE_URL
          /\ SubSeq(last'.calls, 1, 2) = <<"remoteURL", "set_push_url">>
          /\ head(World) # 0 =>
                /\ last'.calls[3] = "remote.push"
                /\ last'.specs = << <<"refs/heads/", HEAD>> >>
          /\ head(World) = 0 => ~Has(last'.calls, "remote.push")
          /\ UNCHANGED <<refs, HEAD, objects>>
          /\ \A b \in Branches \ {HEAD} :
                originRefs'[b] = originRefs[b] /\ tracking'[b] = tracking[b]
        ]_vars

C21_Witness ==
    /\ last.op = "push"
    /\ last.exc = NoExc
    /\ HEAD = "dev"
    /\ originRefs["dev"] = refs["dev"]
    /\ refs["master"] # 0
    /\ originRefs["master"] # refs["master"]
    /\ pushUrl = REMOTE_URL

\* C22: the host identity check accepts every input: for every certificate
\* and every host name, whether the transport's own verdict is valid or
\* invalid, certificate_check returns True and does not raise.
C22_CertificateAlwaysAccepted ==
    last.op = "certificate_check" =>
        /\ last.ret = TRUE
        /\ last.exc = NoExc

C22_Witness ==
    /\ last.op = "certificate_check"
    /\ last.arg = <<"x509 self-signed", FALSE, "evil.example">>
    /\ last.ret = TRUE

\* ------------------------------------------------------------------------
\* Properties of createCommit
\* ------------------------------------------------------------------------

\* This step is createCommit(m).
CreateCommitOf(m) ==
    /\ last'.op = "createCommit"
    /\ Install(createCommit(World, m), "createCommit", "")

\* The effect of a commit of the index with message m: one commit more, of
\* the index's tree, on top of the commit of HEAD if there is one; the
\* branch of HEAD moves to it and the index is as it was.
Committed(m) ==
    /\ last'.exc = NoExc
    /\ index' = index
    /\ conflicts' = conflicts
    /\ objects' = Append(objects,
                     [parents |-> IF refs[HEAD] = 0 THEN <<>>
                                  ELSE <<refs[HEAD]>>,
                      tree |-> index, message |-> m])
    /\ refs' = [refs EXCEPT ![HEAD] = Len(objects) + 1]
    /\ HEAD' = HEAD

\* C23 (as claimed): createCommit with a non-empty message snapshots the
\* index into a tree and leaves the index unchanged, creates exactly one
\* commit, with no parent when HEAD is unborn and the previous HEAD commit
\* as only parent otherwise, and moves HEAD's branch to it; with an empty
\* message it fails with the input-validation error, creates no commit and
\* moves no ref.
C23_CreateCommitAsClaimed ==
    [][\A m \in Messages :
          CreateCommitOf(m) =>
             IF m = <<>>
             THEN last'.exc = EmptyMsgError /\ UNCHANGED repoVars
             ELSE Committed(m)]_vars

\* C23 (amended): as claimed when the index has no conflict entries; with a
\* non-empty message and an index that has conflict entries, createCommit
\* fails with the engine's error when it snapshots the index, creates no
\* commit and moves no ref.
C23_CreateCommit ==
    [][\A m \in Messages :
          CreateCommitOf(m) =>
             IF m = <<>>
             THEN last'.exc = EmptyMsgError /\ UNCHANGED repoVars
             ELSE IF conflicts # {}
             THEN last'.exc = GitError /\ UNCHANGED repoVars
             ELSE Committed(m)]_vars

C23_Witness ==
    /\ last.op = "createCommit"
    /\ last.exc = NoExc
    /\ refs[HEAD] = Len(objects)
    /\ Len(objects[refs[HEAD]].parents) = 1
    /\ objects[refs[HEAD]].tree = index
    /\ mergeHead # 0

\* ------------------------------------------------------------------------
\* Properties of pull: frame, consistency, convergence, merge state
\* ------------------------------------------------------------------------

\* C25 (as claimed): a pull on current branch B changes no local branch ref
\* other than refs/heads/B; a fast-forward pull on a branch other than
\* master leaves refs/heads/master where it was.
C25_PullMovesCurrentBranchOnly ==
    [][(last'.op = "pull" /\ Pull) =>
          \A b \in Branches \ {HEAD} : refs'[b] = refs[b]]_vars

\* The working tree is the tree of the commit HEAD points to.
WorkTreeAtHead(w) == w.workTree = TreeOf(w, head(w))

\* C26 (as claimed): a pull that resolves as fast-forward, started with the
\* working tree at the commit of HEAD, returns (normally or with an error)
\* with the working tree at the commit of HEAD: never with the working tree
\* at the remote target while the branch ref is still at the old commit.
C26_FastForwardExitsConsistent ==
    [][(WorkTreeAtHead(World) /\ PullResolving(FASTFORWARD)) =>
          WorkTreeAtHead(World')]_vars

\* This step is a pull with the merge-commit flag set that resolves as a
\* fast-forward or as a normal merge and returns normally.
PullMerged ==
    /\ last'.op = "pull"
    /\ last'.exc = NoExc
    /\ Truthy(last'.arg)
    /\ Has(last'.calls, "merge_analysis")
    /\ ResolvesAs(last', FASTFORWARD) \/ ResolvesAs(last', NORMAL)
    /\ Pull

\* C27 (as claimed): after a pull that returns normally with the
\* merge-commit flag set, by fast-forward or by a clean normal merge, the
\* remote target is the commit of HEAD or one of its ancestors (so that the
\* engine analyses a repeated pull as up-to-date); the commit a normal merge
\* created has the previous commit of HEAD and the remote target as parents.
C27_PullConverges ==
    [][PullMerged =>
          /\ tracking'[HEAD'] \in Ancestors(objects', refs'[HEAD'])
          /\ UP_TO_DATE \in Libgit2Analysis(World', tracking'[HEAD'])
          /\ ResolvesAs(last', NORMAL) =>
                objects'[refs'[HEAD']].parents = <<refs[HEAD], tracking'[HEAD']>>
      ]_vars

\* C28 (as claimed): when a pull returns, the repository is in the merge
\* state only if that pull failed with the conflict error; a pull that
\* returns normally leaves no merge state.
C28_MergeStateOnlyAfterConflict ==
    [][(last'.op = "pull" /\ Pull) =>
          (mergeHead' # 0 => last'.exc = ConflictError)]_vars

\* ------------------------------------------------------------------------
\* Properties of checkoutBranch
\* ------------------------------------------------------------------------

\* This step is checkoutBranch(name).
CheckoutBranchOf(name) ==
    /\ last'.op = "checkoutBranch"
    /\ last'.arg = name
    /\ CheckoutBranch

\* The remote-tracking branch origin/<name> exists.
RemoteBranchExists(name) ==
    IF name \in Branches THEN RemoteBranchName(name) \in listBranches(World)
    ELSE FALSE

\* C29: checkoutBranch(name): when name is not a listed branch and the
\* remote-tracking branch of that name exists, the local branch is created
\* at the remote-tracking branch's commit and then checked out; when neither
\* exists it fails with AttributeError, creates no branch and leaves HEAD;
\* when name is a local branch no branch is created and it is checked out.
C29_CheckoutBranchCases ==
    [][\A name \in BranchNames :
          CheckoutBranchOf(name) =>
             /\ (name \notin listBranches(World) /\ RemoteBranchExists(name)) =>
                   /\ last'.exc = NoExc
                   /\ last'.calls = <<"create_branch", "checkout">>
                   /\ refs' = [refs EXCEPT ![name] = tracking[name]]
                   /\ HEAD' = name
                   /\ workTree' = TreeOf(World', tracking[name])
             /\ (name \notin listBranches(World) /\ ~RemoteBranchExists(name)) =>
                   /\ last'.exc = AttributeError
                   /\ last'.calls = <<>>
                   /\ UNCHANGED repoVars
             /\ (name \in Branches /\ name \in listBranches(World)) =>
                   /\ last'.exc = NoExc
                   /\ last'.calls = <<"checkout">>
                   /\ refs' = refs
                   /\ HEAD' = name
                   /\ workTree' = TreeOf(World', refs[name])]_vars

C29_Witness ==
    /\ last.op = "checkoutBranch"
    /\ last.calls = <<"create_branch", "checkout">>
    /\ HEAD = "dev"
    /\ refs["dev"] = tracking["dev"]
    /\ refs["master"] # 0
    /\ workTree # TreeOf(World, refs["master"])

\* ------------------------------------------------------------------------
\* Properties of concurrent credential resolutions
\* ------------------------------------------------------------------------

\* Resolver p has selected a private key path.
HasKey(p) == auth[p].privKey \in KeyPaths

\* This step is a statement of resolver q.
StepOf(q) == auth'[q] # auth[q]

\* The keystore as a resolution for key path k alone sees it: the entry of
\* k, and nothing cached for any other key.
Alone(k) == [k2 \in KeyPaths |-> IF k2 = k THEN keystore[k] ELSE None]

\* The step of p is the one p takes when it runs alone: its request (with
\* some answer to the prompt) or its unlock attempt, computed against the
\* keystore that holds the entry of p's key only, gives p's next state and
\* the next entry of p's key.
SameAsAlone(p) ==
    LET k == auth[p].privKey
    IN  IF auth[p].pc = "getPassword"
        THEN \E answer \in {None} \cup Passphrases :
                LET got == getPassword(Alone(k), k, answer)
                IN  /\ auth'[p] = requestPassphrase(auth[p], got.password)
                    /\ keystore'[k] = got.store[k]
        ELSE IF auth[p].pc = "unlock"
        THEN LET tried == tryUnlock(auth[p], keyFiles[k])
             IN  /\ auth'[p] = tried.a
                 /\ keystore'[k] = IF tried.evict
                                   THEN deletePassword(Alone(k), k)[k]
                                   ELSE keystore[k]
        ELSE keystore' = keystore

\* C24: two resolutions that run concurrently for different private key
\* paths do not interfere through the keystore. Every statement of one
\* leaves the other's state and the passphrase cached for the other's key
\* as they are (an eviction removes the entry of its own key only), and is
\* the statement it executes when it runs alone: so the requests, the
\* evictions and the outcome of each are those of its run alone.
C24_NoInterference ==
    [][\A p \in Resolvers : \A q \in Resolvers \ {p} :
          (StepOf(q) /\ HasKey(p) /\ auth[q].privKey # auth[p].privKey) =>
             /\ auth'[p] = auth[p]
             /\ keystore'[auth[p].privKey] = keystore[auth[p].privKey]
             /\ SameAsAlone(q)]_vars

\* One resolution has evicted a passphrase of its key and asks again while
\* the other has unlocked a different key, whose passphrase is still cached.
C24_Witness ==
    /\ auth["r1"].pc = "done"
    /\ auth["r1"].keypair.passphrase # None
    /\ keystore[auth["r1"].privKey] = auth["r1"].keypair.passphrase
    /\ auth["r2"].pc = "getPassword"
    /\ auth["r2"].tryNum > 0
    /\ HasKey("r2")
    /\ auth["r2"].privKey # auth["r1"].privKey
    /\ keystore[auth["r2"].privKey] = None

====
